---- MODULE Spec2Model ----
(***************************************************************************)
(* State-machine model of the RecordTranscribe session of web_voice.js     *)
(* (oneai-nlp/speech-to-text).  Every public method and every event        *)
(* handler of the class is one action; the module-level flag               *)
(* recordTranscribeActive is shared by all sessions.  The audio recorder   *)
(* of audio_recorder.js is modelled beside it: the encoder worker          *)
(* (encode, dump, reset) and the MediaRecorder object that posts commands  *)
(* to it and hands its chunks to the listeners.                            *)
(*                                                                         *)
(* Strings the code inspects character by character (the close reason) are *)
(* sequences of one-character strings.  Strings the code only produces     *)
(* (fixed statuses and messages) are sequences of longer segments; the     *)
(* string meant is the concatenation of the segments.                      *)
(***************************************************************************)
EXTENDS Integers, Sequences, FiniteSets, TLC

\* The RecordTranscribe objects of the process.
Sessions == {"s1", "s2"}

\* Bounds of the exploration.
MaxAudio == 2      \* audio chunks forwarded, over all sessions
MaxMessages == 2   \* result frames merged, over all sessions
MaxFinalWords == 1     \* final words of one response
MaxNonFinalWords == 2  \* non-final words of one response
MaxBuffers == 3        \* buffers the encoder holds at a time
MaxStarts == 1         \* accepted calls of start() on the recorder
MaxRequests == 2       \* accepted calls of requestData(), by the timer or a caller
MaxErrors == 1         \* calls the recorder rejects with an error event

VARIABLES
  state,            \* this._state
  active,           \* recordTranscribeActive
  onFinished,       \* this._onFinished != null
  onError,          \* this._onError != null
  config,           \* the other fields the setters assign
  mediaStream,      \* this._mediaStream != null
  mediaRecorder,    \* this._mediaRecorder != null
  webSocket,        \* this._webSocket != null
  result,           \* this._result
  gum,              \* the getUserMedia promise: "idle", "pending", "settled"
  deferred,         \* the microtask queued by stop() has not run yet
  stream,           \* tracks of the granted MediaStream: "none", "live", "stopped"
  recorder,         \* the MediaRecorder object: "none", "inactive", "recording", "terminated"
  socket,           \* the WebSocket object: "none", "live", "closed"
  sent,             \* the frames passed to webSocket.send(), in order
  finishedCalls,    \* invocations of the onFinished callback
  errorCalls,       \* invocations of the onError callback
  lastError,        \* arguments of the last onError invocation
  merged,           \* result frames merged so far (all sessions)
  lastEvent         \* the method or handler that ran last

VARIABLES
  buffers,          \* encoder worker: buffers, the encoded buffers held
  lastDump,         \* encoder worker: the last dump(), what it held and returned
  encLast,          \* encoder worker: the last command handled
  recState,         \* MediaRecorder: this.state
  maxOutputSize,    \* MediaRecorder: this.maxOutputSize, <<>> when undefined
  toWorker,         \* messages posted to the worker and not yet handled
  toMain,           \* chunks posted by the worker and not yet delivered
  log               \* calls of start() and stop(), and events dispatched to listeners

\* The encoder worker and the MediaRecorder.
recVars == <<buffers, lastDump, encLast, recState, maxOutputSize, toWorker,
             toMain, log>>

vars == <<state, active, onFinished, onError, config, mediaStream, mediaRecorder,
          webSocket, result, gum, deferred, stream, recorder, socket, sent,
          finishedCalls, errorCalls, lastError, merged, lastEvent, recVars>>

\* Everything but lastEvent, lastError and the callback counters.
sessionVars == <<state, active, onFinished, onError, config, mediaStream,
                 mediaRecorder, webSocket, result, gum, deferred, stream,
                 recorder, socket, sent, merged>>

----------------------------------------------------------------------------
\* State (web_voice.js:11-21)

State == {"Init", "RequestingMedia", "OpeningWebSocket", "Running",
          "Finishing", "FinishingEarly", "Finished", "Error", "Canceled"}

\* Faulty variant: Init is not counted as inactive.
isInactiveState_MissingInit(st) ==
  \/ st = "Finished"
  \/ st = "Error"
  \/ st = "Canceled"

isInactiveState(st) ==
  \/ st = "Init"
  \/ st = "Finished"
  \/ st = "Error"
  \/ st = "Canceled"

\* Faulty variant: OpeningWebSocket is not counted.
isWebSocketState_MissingOpening(st) ==
  \/ st = "Running"
  \/ st = "Finishing"

\* Faulty variant: the guard lets every state through.
isWebSocketState_Always(st) == TRUE

isWebSocketState(st) ==
  \/ st = "OpeningWebSocket"
  \/ st = "Running"
  \/ st = "Finishing"

----------------------------------------------------------------------------
\* StatusMessageRegex: ^<([a-zA-Z0-9_\-]+)> *(([^ ]|$).*)$

\* [a-zA-Z0-9_\-]
TokenChars ==
  {"a","b","c","d","e","f","g","h","i","j","k","l","m","n","o","p","q","r",
   "s","t","u","v","w","x","y","z",
   "A","B","C","D","E","F","G","H","I","J","K","L","M","N","O","P","Q","R",
   "S","T","U","V","W","X","Y","Z",
   "0","1","2","3","4","5","6","7","8","9","_","-"}

\* The characters "." does not match (no s flag).
LineTerminators == {"\n", "\r"}

\* Index of the first element of str at or after i that is not in set, or
\* Len(str) + 1.
RECURSIVE SkipWhile(_, _, _)
SkipWhile(str, i, set) ==
  IF i <= Len(str) /\ str[i] \in set THEN SkipWhile(str, i + 1, set) ELSE i

\* Faulty variant: the pattern "token rest-of-message", without the angle
\* brackets: ^([a-zA-Z0-9_\-]+) *(([^ ]|$).*)$
StatusMessageExec_NoBrackets(reason) ==
  LET tokEnd == SkipWhile(reason, 1, TokenChars)
      msgAt  == SkipWhile(reason, tokEnd, {" "})
      msg    == SubSeq(reason, msgAt, Len(reason))
      ok     == /\ tokEnd > 1
                /\ \A i \in 2..Len(msg) : msg[i] \notin LineTerminators
  IN IF ok
       THEN [matched |-> TRUE, status |-> SubSeq(reason, 1, tokEnd - 1),
             message |-> msg]
       ELSE [matched |-> FALSE, status |-> <<>>, message |-> <<>>]

\* StatusMessageRegex.exec(reason): [matched, status (group 1), message (group 2)].
StatusMessageExec(reason) ==
  LET tokEnd == SkipWhile(reason, 2, TokenChars)       \* "<" then [..]+
      msgAt  == SkipWhile(reason, tokEnd + 1, {" "})   \* ">" then " *"
      msg    == SubSeq(reason, msgAt, Len(reason))
      ok     == /\ Len(reason) >= 3
                /\ reason[1] = "<"
                /\ tokEnd > 2
                /\ tokEnd <= Len(reason)
                /\ reason[tokEnd] = ">"
                \* ([^ ]|$) takes the first character, whatever it is but a
                \* space; .* takes the rest unless it holds a line terminator
                /\ \A i \in 2..Len(msg) : msg[i] \notin LineTerminators
  IN IF ok
       THEN [matched |-> TRUE, status |-> SubSeq(reason, 2, tokEnd - 1),
             message |-> msg]
       ELSE [matched |-> FALSE, status |-> <<>>, message |-> <<>>]

----------------------------------------------------------------------------
\* Inputs delivered by the environment.

\* A string as the sequence of its characters, for the reasons below.
EofToken == <<"e", "o", "f">>

\* CloseEvent.reason values.
Reasons ==
  { <<>>,                                              \* ""
    <<"e","o","f">>,                                   \* "eof"
    <<"<","e","o","f",">">>,                           \* "<eof>"
    <<"<","e","o","f",">"," ">>,                       \* "<eof> "
    <<"<","e","o","f",">"," ","o","k">>,               \* "<eof> ok"
    <<"<","e","o","f">>,                               \* "<eof"
    <<"<",">"," ","e","o","f">>,                       \* "<> eof"
    <<"<","E","O","F",">">>,                           \* "<EOF>"
    <<"<","e","-","1",">"," "," ","n","o"," ","k">>,   \* "<e-1>  no k"
    <<"<","e","o","f",">","a","\n","b">> }             \* "<eof>a\nb"

\* CloseEvent.code values: normal closure, abnormal closure.
NormalClosure == 1000
Codes == {NormalClosure, 1006}

\* Word objects of a response ({t, s, d}).
JsHi == [t |-> "hi", s |-> 0, d |-> 200]
JsYo == [t |-> "yo", s |-> 200, d |-> 100]

\* Sequences over set of length at most n.
SeqsUpTo(set, n) == UNION { [1..k -> set] : k \in 0..n }

\* Parsed response frames ({fw, nfw, fpt, tpt}).
Responses ==
  [fw : SeqsUpTo({JsHi}, MaxFinalWords), nfw : SeqsUpTo({JsYo}, MaxNonFinalWords),
   fpt : {10, 20}, tpt : {30}]

\* MessageEvent.data: the text of a response frame (parses), or text that
\* JSON.parse rejects (response is then meaningless).
MessageData ==
  [parses : {TRUE}, response : Responses]
    \cup [parses : {FALSE}, response : {CHOOSE r \in Responses : TRUE}]

----------------------------------------------------------------------------
\* Results (web_voice.js:48-78, 387-398)

wordFromJson(jsWord, isFinal) ==
  [text |-> jsWord.t, start_ms |-> jsWord.s, duration_ms |-> jsWord.d,
   is_final |-> isFinal]

resultFromResponse(response) ==
  [words |-> [i \in 1..Len(response.fw) |-> wordFromJson(response.fw[i], TRUE)]
             \o [i \in 1..Len(response.nfw) |-> wordFromJson(response.nfw[i], FALSE)],
   final_proc_time_ms |-> response.fpt,
   total_proc_time_ms |-> response.tpt]

initialResult == [words |-> <<>>, final_proc_time_ms |-> 0, total_proc_time_ms |-> 0]

\* Faulty variant: one trailing non-final word is removed, not the run.
popNonFinal_One(words) ==
  IF Len(words) > 0 /\ ~words[Len(words)].is_final
    THEN SubSeq(words, 1, Len(words) - 1)
    ELSE words

\* while (words.length > 0 && !words[words.length - 1].is_final) words.pop()
RECURSIVE popNonFinal(_)
popNonFinal(words) ==
  IF Len(words) > 0 /\ ~words[Len(words)].is_final
    THEN popNonFinal(SubSeq(words, 1, Len(words) - 1))
    ELSE words

\* Faulty variant: the trailing non-final words are kept.
updateResult_NoPop(res, newResult) ==
  [words |-> res.words \o newResult.words,
   final_proc_time_ms |-> newResult.final_proc_time_ms,
   total_proc_time_ms |-> newResult.total_proc_time_ms]

updateResult(res, newResult) ==
  [words |-> popNonFinal(res.words) \o newResult.words,
   final_proc_time_ms |-> newResult.final_proc_time_ms,
   total_proc_time_ms |-> newResult.total_proc_time_ms]

----------------------------------------------------------------------------
\* Frames passed to webSocket.send()

ConfigFrame == "config"   \* JSON.stringify({api_key, sample_rate_hertz, ...})
AudioFrame == "pcm"       \* event.data of a dataavailable event
EndOfAudio == ""          \* the empty frame

RECURSIVE CountIn(_, _)
CountIn(seq, x) ==
  IF seq = <<>> THEN 0
  ELSE (IF seq[1] = x THEN 1 ELSE 0) + CountIn(Tail(seq), x)

RECURSIVE SumOver(_, _)
SumOver(f, set) ==
  IF set = {} THEN 0
  ELSE LET x == CHOOSE y \in set : TRUE IN f[x] + SumOver(f, set \ {x})

\* Audio frames sent so far by all sessions.
AudioSent == SumOver([s \in Sessions |-> CountIn(sent[s], AudioFrame)], Sessions)

----------------------------------------------------------------------------
\* Initial state: every session constructed (web_voice.js:80, 83-103)

\* The constructor's values of the fields that have a setter besides
\* _onFinished and _onError; a callback field holds whether it is non-null.
DefaultConfig ==
  [includeNonFinal |-> FALSE, apiKey |-> "demo", speechContext |-> "{}",
   onStarted |-> FALSE, onPartialResult |-> FALSE,
   webSocketUri |-> "wss://api.soniox.com/transcribe-websocket"]

\* No dump() has run.
NoDump == [from |-> <<>>, max |-> 0, out |-> <<>>, after |-> "none"]

NoError == [status |-> <<>>, message |-> <<>>]
NoArg == <<>>

Init ==
  /\ state = [s \in Sessions |-> "Init"]
  /\ active = FALSE
  /\ onFinished = [s \in Sessions |-> FALSE]
  /\ onError = [s \in Sessions |-> FALSE]
  /\ config = [s \in Sessions |-> DefaultConfig]
  /\ mediaStream = [s \in Sessions |-> FALSE]
  /\ mediaRecorder = [s \in Sessions |-> FALSE]
  /\ webSocket = [s \in Sessions |-> FALSE]
  /\ result = [s \in Sessions |-> initialResult]
  /\ gum = [s \in Sessions |-> "idle"]
  /\ deferred = [s \in Sessions |-> FALSE]
  /\ stream = [s \in Sessions |-> "none"]
  /\ recorder = [s \in Sessions |-> "none"]
  /\ socket = [s \in Sessions |-> "none"]
  /\ sent = [s \in Sessions |-> <<>>]
  /\ finishedCalls = [s \in Sessions |-> 0]
  /\ errorCalls = [s \in Sessions |-> 0]
  /\ lastError = [s \in Sessions |-> NoError]
  /\ merged = 0
  /\ lastEvent = [op |-> "constructor", s |-> "", threw |-> FALSE, arg |-> NoArg]
  /\ buffers = <<>>
  /\ lastDump = NoDump
  /\ encLast = "none"
  /\ recState = "inactive"
  /\ maxOutputSize = <<>>
  /\ toWorker = <<>>
  /\ toMain = <<>>
  /\ log = <<>>

\* The method or handler op of session s ran; arg is what it read of its
\* event (a handler that returns at its state guard reads nothing).  The
\* recorder modelled beside the sessions does not move in such a step.
Ran(op, s, threw, arg) ==
  /\ lastEvent' = [op |-> op, s |-> s, threw |-> threw, arg |-> arg]
  /\ UNCHANGED recVars

wsVars == <<webSocket, socket>>
mediaVars == <<mediaStream, mediaRecorder, stream, recorder>>
cbVars == <<finishedCalls, errorCalls, lastError>>
cfgVars == <<onFinished, onError, config>>

----------------------------------------------------------------------------
\* Release of resources (web_voice.js:327-361)

closeWebSocket(s) ==
  /\ webSocket' = [webSocket EXCEPT ![s] = FALSE]
  /\ socket' = [socket EXCEPT ![s] = IF webSocket[s] THEN "closed" ELSE @]

\* Faulty variant: the tracks of the stream are not stopped.
closeMedia_LeavesTracks(s) ==
  /\ mediaRecorder' = [mediaRecorder EXCEPT ![s] = FALSE]
  /\ recorder' = [recorder EXCEPT ![s] = IF mediaRecorder[s] THEN "terminated" ELSE @]
  /\ mediaStream' = [mediaStream EXCEPT ![s] = FALSE]
  /\ stream' = stream

\* A recorder that is not inactive is stopped, then its worker is terminated.
closeMedia(s) ==
  /\ mediaRecorder' = [mediaRecorder EXCEPT ![s] = FALSE]
  /\ recorder' = [recorder EXCEPT ![s] = IF mediaRecorder[s] THEN "terminated" ELSE @]
  /\ mediaStream' = [mediaStream EXCEPT ![s] = FALSE]
  /\ stream' = [stream EXCEPT ![s] = IF mediaStream[s] THEN "stopped" ELSE @]

\* Faulty variant: the channel is left open.
closeResources_MediaOnly(s) ==
  /\ closeMedia(s)
  /\ UNCHANGED wsVars

closeResources(s) ==
  /\ closeWebSocket(s)
  /\ closeMedia(s)

----------------------------------------------------------------------------
\* Transitions shared by the handlers (web_voice.js:363-385).  handleError
\* and handleFinished say nothing of gum and deferred, which belong to the
\* handler that calls them.

\* this._webSocket.send("") throws when this._webSocket is null; the media
\* is closed by then and the state is not yet assigned.
goRunningToFinishing(s, op) ==
  /\ closeMedia(s)
  /\ IF webSocket[s]
       THEN /\ sent' = [sent EXCEPT ![s] = Append(@, EndOfAudio)]
            /\ state' = [state EXCEPT ![s] = "Finishing"]
            /\ Ran(op, s, FALSE, NoArg)
       ELSE /\ UNCHANGED <<sent, state>>
            /\ Ran(op, s, TRUE, NoArg)
  /\ UNCHANGED <<active, wsVars, cbVars, cfgVars, result, gum, deferred, merged>>

\* Faulty variant: the state is left as it was.
handleError_KeepsState(s, status, message) ==
  /\ closeResources(s)
  /\ active' = FALSE
  /\ IF onError[s]
       THEN /\ errorCalls' = [errorCalls EXCEPT ![s] = @ + 1]
            /\ lastError' = [lastError EXCEPT ![s] =
                               [status |-> status, message |-> message]]
       ELSE UNCHANGED <<errorCalls, lastError>>
  /\ UNCHANGED <<state, finishedCalls, cfgVars, result, sent, merged>>

handleError(s, status, message) ==
  /\ closeResources(s)
  /\ state' = [state EXCEPT ![s] = "Error"]
  /\ active' = FALSE
  /\ IF onError[s]
       THEN /\ errorCalls' = [errorCalls EXCEPT ![s] = @ + 1]
            /\ lastError' = [lastError EXCEPT ![s] =
                               [status |-> status, message |-> message]]
       ELSE UNCHANGED <<errorCalls, lastError>>
  /\ UNCHANGED <<finishedCalls, cfgVars, result, sent, merged>>

handleFinished(s) ==
  /\ closeResources(s)
  /\ state' = [state EXCEPT ![s] = "Finished"]
  /\ active' = FALSE
  /\ finishedCalls' = [finishedCalls EXCEPT ![s] = IF onFinished[s] THEN @ + 1 ELSE @]
  /\ UNCHANGED <<errorCalls, lastError, cfgVars, result, sent, merged>>

----------------------------------------------------------------------------
\* Public methods (web_voice.js:140-152, 161-193)

setOnFinished(s, cb) ==
  IF state[s] # "Init"
    THEN Ran("setOnFinished", s, TRUE, NoArg)
         /\ UNCHANGED <<sessionVars, cbVars>>
    ELSE /\ onFinished' = [onFinished EXCEPT ![s] = cb]
         /\ Ran("setOnFinished", s, FALSE, NoArg)
         /\ UNCHANGED <<state, active, onError, config, mediaVars, wsVars, result,
                        gum, deferred, sent, merged, cbVars>>

setOnError(s, cb) ==
  IF state[s] # "Init"
    THEN Ran("setOnError", s, TRUE, NoArg)
         /\ UNCHANGED <<sessionVars, cbVars>>
    ELSE /\ onError' = [onError EXCEPT ![s] = cb]
         /\ Ran("setOnError", s, FALSE, NoArg)
         /\ UNCHANGED <<state, active, onFinished, config, mediaVars, wsVars,
                        result, gum, deferred, sent, merged, cbVars>>

\* The six setters of the fields of config (web_voice.js:105-138, 154-159):
\* method op assigns value to field.
setField(s, op, field, value) ==
  IF state[s] # "Init"
    THEN Ran(op, s, TRUE, NoArg)
         /\ UNCHANGED <<sessionVars, cbVars>>
    ELSE /\ config' = [config EXCEPT ![s][field] = value]
         /\ Ran(op, s, FALSE, NoArg)
         /\ UNCHANGED <<state, active, onFinished, onError, mediaVars, wsVars,
                        result, gum, deferred, sent, merged, cbVars>>

setIncludeNonFinal(s, includeNonFinal) ==
  setField(s, "setIncludeNonFinal", "includeNonFinal", includeNonFinal)
setApiKey(s, apiKey) == setField(s, "setApiKey", "apiKey", apiKey)
setSpeechContext(s, speechContext) ==
  setField(s, "setSpeechContext", "speechContext", speechContext)
setOnStarted(s, cb) == setField(s, "setOnStarted", "onStarted", cb)
setOnPartialResult(s, cb) ==
  setField(s, "setOnPartialResult", "onPartialResult", cb)
setWebSocketUri(s, webSocketUri) ==
  setField(s, "setWebSocketUri", "webSocketUri", webSocketUri)

\* Faulty variant: the process-wide flag is not consulted.
start_IgnoresActive(s) ==
  IF state[s] # "Init"
    THEN Ran("start", s, TRUE, NoArg)
         /\ UNCHANGED <<sessionVars, cbVars>>
    ELSE /\ gum' = [gum EXCEPT ![s] = "pending"]
         /\ active' = TRUE
         /\ state' = [state EXCEPT ![s] = "RequestingMedia"]
         /\ Ran("start", s, FALSE, NoArg)
         /\ UNCHANGED <<cfgVars, mediaVars, wsVars, result, deferred, sent,
                        merged, cbVars>>

start(s) ==
  IF state[s] # "Init" \/ active
    THEN Ran("start", s, TRUE, NoArg)
         /\ UNCHANGED <<sessionVars, cbVars>>
    ELSE /\ gum' = [gum EXCEPT ![s] = "pending"]
         /\ active' = TRUE
         /\ state' = [state EXCEPT ![s] = "RequestingMedia"]
         /\ Ran("start", s, FALSE, NoArg)
         /\ UNCHANGED <<cfgVars, mediaVars, wsVars, result, deferred, sent,
                        merged, cbVars>>

\* Faulty variant: the early finish is completed inside stop().
stop_Sync(s) ==
  IF state[s] = "RequestingMedia" \/ state[s] = "OpeningWebSocket"
    THEN /\ handleFinished(s)
         /\ Ran("stop", s, FALSE, NoArg)
         /\ UNCHANGED <<gum, deferred>>
    ELSE IF state[s] = "Running"
      THEN goRunningToFinishing(s, "stop")
      ELSE Ran("stop", s, FALSE, NoArg)
           /\ UNCHANGED <<sessionVars, cbVars>>

\* Faulty variant: stop() in Finishing ends the audio again.
stop_AlsoFinishing(s) ==
  IF state[s] = "RequestingMedia" \/ state[s] = "OpeningWebSocket"
    THEN /\ closeResources(s)
         /\ deferred' = [deferred EXCEPT ![s] = TRUE]
         /\ state' = [state EXCEPT ![s] = "FinishingEarly"]
         /\ Ran("stop", s, FALSE, NoArg)
         /\ UNCHANGED <<active, cfgVars, result, gum, sent, merged, cbVars>>
    ELSE IF state[s] = "Running" \/ state[s] = "Finishing"
      THEN goRunningToFinishing(s, "stop")
      ELSE Ran("stop", s, FALSE, NoArg)
           /\ UNCHANGED <<sessionVars, cbVars>>

\* Faulty variant: the early finish is never queued.
stop_NoDefer(s) ==
  IF state[s] = "RequestingMedia" \/ state[s] = "OpeningWebSocket"
    THEN /\ closeResources(s)
         /\ state' = [state EXCEPT ![s] = "FinishingEarly"]
         /\ Ran("stop", s, FALSE, NoArg)
         /\ UNCHANGED <<active, cfgVars, result, gum, deferred, sent, merged, cbVars>>
    ELSE IF state[s] = "Running"
      THEN goRunningToFinishing(s, "stop")
      ELSE Ran("stop", s, FALSE, NoArg)
           /\ UNCHANGED <<sessionVars, cbVars>>

stop(s) ==
  IF state[s] = "RequestingMedia" \/ state[s] = "OpeningWebSocket"
    THEN /\ closeResources(s)
         /\ deferred' = [deferred EXCEPT ![s] = TRUE]
         /\ state' = [state EXCEPT ![s] = "FinishingEarly"]
         /\ Ran("stop", s, FALSE, NoArg)
         /\ UNCHANGED <<active, cfgVars, result, gum, sent, merged, cbVars>>
    ELSE IF state[s] = "Running"
      THEN goRunningToFinishing(s, "stop")
      ELSE Ran("stop", s, FALSE, NoArg)
           /\ UNCHANGED <<sessionVars, cbVars>>

cancel(s) ==
  IF ~isInactiveState(state[s])
    THEN /\ closeResources(s)
         /\ state' = [state EXCEPT ![s] = "Canceled"]
         /\ active' = FALSE
         /\ Ran("cancel", s, FALSE, NoArg)
         /\ UNCHANGED <<cfgVars, result, gum, deferred, sent, merged, cbVars>>
    ELSE Ran("cancel", s, FALSE, NoArg)
         /\ UNCHANGED <<sessionVars, cbVars>>

----------------------------------------------------------------------------
\* Capture handlers (web_voice.js:212-252)

\* Faulty variant: the granted stream is used whatever the state.
onGetUserMediaSuccess_NoGuard(s) ==
  /\ gum[s] = "pending"
  /\ gum' = [gum EXCEPT ![s] = "settled"]
  /\ Ran("onGetUserMediaSuccess", s, FALSE, NoArg)
  /\ mediaStream' = [mediaStream EXCEPT ![s] = TRUE]
  /\ stream' = [stream EXCEPT ![s] = "live"]
  /\ mediaRecorder' = [mediaRecorder EXCEPT ![s] = TRUE]
  /\ recorder' = [recorder EXCEPT ![s] = "inactive"]
  /\ webSocket' = [webSocket EXCEPT ![s] = TRUE]
  /\ socket' = [socket EXCEPT ![s] = "live"]
  /\ state' = [state EXCEPT ![s] = "OpeningWebSocket"]
  /\ UNCHANGED <<active, cfgVars, result, deferred, sent, merged, cbVars>>

\* The getUserMedia promise of start() fulfils with a stream whose tracks are
\* live.
onGetUserMediaSuccess(s) ==
  /\ gum[s] = "pending"
  /\ gum' = [gum EXCEPT ![s] = "settled"]
  /\ Ran("onGetUserMediaSuccess", s, FALSE, NoArg)
  /\ IF state[s] # "RequestingMedia"
       THEN /\ stream' = [stream EXCEPT ![s] = "stopped"]
            /\ UNCHANGED <<state, active, cfgVars, mediaStream, mediaRecorder,
                           recorder, wsVars, result, deferred, sent, merged, cbVars>>
       ELSE /\ mediaStream' = [mediaStream EXCEPT ![s] = TRUE]
            /\ stream' = [stream EXCEPT ![s] = "live"]
            /\ mediaRecorder' = [mediaRecorder EXCEPT ![s] = TRUE]
            /\ recorder' = [recorder EXCEPT ![s] = "inactive"]
            /\ webSocket' = [webSocket EXCEPT ![s] = TRUE]
            /\ socket' = [socket EXCEPT ![s] = "live"]
            /\ state' = [state EXCEPT ![s] = "OpeningWebSocket"]
            /\ UNCHANGED <<active, cfgVars, result, deferred, sent, merged, cbVars>>

\* The getUserMedia promise of start() rejects.
onGetUserMediaError(s) ==
  /\ gum[s] = "pending"
  /\ gum' = [gum EXCEPT ![s] = "settled"]
  /\ Ran("onGetUserMediaError", s, FALSE, NoArg)
  /\ IF state[s] # "RequestingMedia"
       THEN UNCHANGED <<state, active, cfgVars, mediaVars, wsVars, result,
                        deferred, sent, merged, cbVars>>
       ELSE /\ handleError(s, <<"get_user_media_failed">>,
                            <<"Failed to get user media.">>)
            /\ UNCHANGED deferred

\* Faulty variant: no state guard.
onMediaRecorderStop_NoGuard(s) ==
  /\ recorder[s] # "none"
  /\ goRunningToFinishing(s, "onMediaRecorderStop")

\* A "stop" event of the recorder created by onGetUserMediaSuccess.
onMediaRecorderStop(s) ==
  /\ recorder[s] # "none"
  /\ IF state[s] # "Running"
       THEN Ran("onMediaRecorderStop", s, FALSE, NoArg)
            /\ UNCHANGED <<sessionVars, cbVars>>
       ELSE goRunningToFinishing(s, "onMediaRecorderStop")

\* A "dataavailable" event of the recorder created by onGetUserMediaSuccess.
\* this._webSocket.send(event.data) throws when this._webSocket is null.
onMediaRecorderData(s) ==
  /\ recorder[s] # "none"
  /\ AudioSent < MaxAudio
  /\ IF state[s] # "Running"
       THEN Ran("onMediaRecorderData", s, FALSE, NoArg)
            /\ UNCHANGED <<sessionVars, cbVars>>
       ELSE IF webSocket[s]
         THEN /\ sent' = [sent EXCEPT ![s] = Append(@, AudioFrame)]
              /\ Ran("onMediaRecorderData", s, FALSE, NoArg)
              /\ UNCHANGED <<state, active, cfgVars, mediaVars, wsVars, result,
                             gum, deferred, merged, cbVars>>
         ELSE Ran("onMediaRecorderData", s, TRUE, NoArg)
              /\ UNCHANGED <<sessionVars, cbVars>>

----------------------------------------------------------------------------
\* Channel handlers (web_voice.js:254-325).  They are bound to the WebSocket
\* created by onGetUserMediaSuccess; the environment may call them in any
\* order and any number of times, also after closeWebSocket detached them,
\* so that their state guards are exercised.

\* Faulty variant: no state guard.
onWebSocketOpen_NoGuard(s) ==
  /\ socket[s] # "none"
  /\ recorder' = [recorder EXCEPT ![s] = "recording"]
  /\ sent' = [sent EXCEPT ![s] = Append(@, ConfigFrame)]
  /\ state' = [state EXCEPT ![s] = "Running"]
  /\ Ran("onWebSocketOpen", s, FALSE, NoArg)
  /\ UNCHANGED <<active, cfgVars, mediaStream, mediaRecorder, stream,
                 wsVars, result, gum, deferred, merged, cbVars>>

onWebSocketOpen(s) ==
  /\ socket[s] # "none"
  /\ IF state[s] # "OpeningWebSocket"
       THEN Ran("onWebSocketOpen", s, FALSE, NoArg)
            /\ UNCHANGED <<sessionVars, cbVars>>
       ELSE /\ recorder' = [recorder EXCEPT ![s] = "recording"]
            /\ sent' = [sent EXCEPT ![s] = Append(@, ConfigFrame)]
            /\ state' = [state EXCEPT ![s] = "Running"]
            /\ Ran("onWebSocketOpen", s, FALSE, NoArg)
            /\ UNCHANGED <<active, cfgVars, mediaStream, mediaRecorder, stream,
                           wsVars, result, gum, deferred, merged, cbVars>>

\* Faulty variant: the eof token ends the session gracefully in every state.
closeOutcome_EofAnyState(st, code, reason) ==
  LET match == StatusMessageExec(reason) IN
  IF code = NormalClosure
    THEN IF match.matched
      THEN IF match.status = EofToken
        THEN [finished |-> TRUE, status |-> <<>>, message |-> <<>>]
        ELSE [finished |-> FALSE, status |-> match.status,
              message |-> match.message]
      ELSE [finished |-> FALSE, status |-> <<"other_asr_error">>,
            message |-> reason]
    ELSE [finished |-> FALSE, status |-> <<"websocket_closed">>,
          message |-> <<"WebSocket closed: code=", ToString(code), ", reason=">>
                        \o reason]

\* What onWebSocketClose makes of the event in a WebSocket state st
\* (web_voice.js:275-297): the graceful end, or the status and message of
\* the error.
closeOutcome(st, code, reason) ==
  LET match == StatusMessageExec(reason) IN
  IF code = NormalClosure
    THEN IF match.matched
      THEN IF match.status = EofToken
        THEN IF st = "Finishing"
          THEN [finished |-> TRUE, status |-> <<>>, message |-> <<>>]
          ELSE [finished |-> FALSE, status |-> <<"other_asr_error">>,
                message |-> <<"Unexpected EOF received.">>]
        ELSE [finished |-> FALSE, status |-> match.status,
              message |-> match.message]
      ELSE [finished |-> FALSE, status |-> <<"other_asr_error">>,
            message |-> reason]
    ELSE [finished |-> FALSE, status |-> <<"websocket_closed">>,
          message |-> <<"WebSocket closed: code=", ToString(code), ", reason=">>
                        \o reason]

onWebSocketClose(s, code, reason) ==
  /\ socket[s] # "none"
  /\ IF ~isWebSocketState(state[s])
       THEN Ran("onWebSocketClose", s, FALSE, NoArg)
            /\ UNCHANGED <<sessionVars, cbVars>>
       ELSE LET out == closeOutcome(state[s], code, reason) IN
            /\ Ran("onWebSocketClose", s, FALSE, <<code, reason>>)
            /\ UNCHANGED <<gum, deferred>>
            /\ IF out.finished
                 THEN handleFinished(s)
                 ELSE handleError(s, out.status, out.message)

onWebSocketError(s) ==
  /\ socket[s] # "none"
  /\ Ran("onWebSocketError", s, FALSE, NoArg)
  /\ IF ~isWebSocketState(state[s])
       THEN UNCHANGED <<sessionVars, cbVars>>
       ELSE /\ handleError(s, <<"websocket_error">>, <<"WebSocket error occurred.">>)
            /\ UNCHANGED <<gum, deferred>>

\* JSON.parse throws on text that is not JSON, before anything is changed.
onWebSocketMessage(s, data) ==
  /\ socket[s] # "none"
  /\ merged < MaxMessages
  /\ IF state[s] # "Running" /\ state[s] # "Finishing"
       THEN Ran("onWebSocketMessage", s, FALSE, NoArg)
            /\ UNCHANGED <<sessionVars, cbVars>>
       ELSE IF ~data.parses
         THEN Ran("onWebSocketMessage", s, TRUE, NoArg)
              /\ UNCHANGED <<sessionVars, cbVars>>
         ELSE /\ result' = [result EXCEPT ![s] =
                              updateResult(@, resultFromResponse(data.response))]
              /\ merged' = merged + 1
              /\ Ran("onWebSocketMessage", s, FALSE, <<data.response>>)
              /\ UNCHANGED <<state, active, cfgVars, mediaVars, wsVars, gum,
                             deferred, sent, cbVars>>

\* The microtask queued by stop().
completeFinishingEarly(s) ==
  /\ deferred[s]
  /\ deferred' = [deferred EXCEPT ![s] = FALSE]
  /\ Ran("completeFinishingEarly", s, FALSE, NoArg)
  /\ IF state[s] # "FinishingEarly"
       THEN UNCHANGED <<state, active, cfgVars, mediaVars, wsVars, result, gum,
                        sent, merged, cbVars>>
       ELSE /\ handleFinished(s)
            /\ UNCHANGED gum

----------------------------------------------------------------------------
\* One session in use: the caller constructs the others and leaves them alone.
InUse == {"s1"}

\* The inputs of a channel event.  A handler that returns at its state guard
\* reads none of them, so one input stands for all there.
CloseCodes(s) == IF isWebSocketState(state[s]) THEN Codes ELSE {NormalClosure}
CloseReasons(s, reasons) == IF isWebSocketState(state[s]) THEN reasons ELSE {<<>>}
Messages(s, datas) ==
  IF state[s] \in {"Running", "Finishing"} THEN datas
  ELSE {[parses |-> FALSE, response |-> CHOOSE r \in Responses : TRUE]}

Next ==
  \/ \E s \in InUse, cb \in BOOLEAN : setOnFinished(s, cb)
  \/ \E s \in InUse, cb \in BOOLEAN : setOnError(s, cb)
  \/ \E s \in InUse : start(s)
  \/ \E s \in InUse : stop(s)
  \/ \E s \in InUse : cancel(s)
  \/ \E s \in InUse : onGetUserMediaSuccess(s)
  \/ \E s \in InUse : onGetUserMediaError(s)
  \/ \E s \in InUse : onMediaRecorderStop(s)
  \/ \E s \in InUse : onMediaRecorderData(s)
  \/ \E s \in InUse : onWebSocketOpen(s)
  \/ \E s \in InUse : \E code \in CloseCodes(s), reason \in CloseReasons(s, Reasons) :
       onWebSocketClose(s, code, reason)
  \/ \E s \in InUse : onWebSocketError(s)
  \/ \E s \in InUse : \E data \in Messages(s, MessageData) :
       onWebSocketMessage(s, data)
  \/ \E s \in InUse : completeFinishingEarly(s)

Spec == Init /\ [][Next]_vars


\* Every session in use by a caller that registers no callback, with fewer
\* inputs: one close reason, one response, one audio chunk and one merged
\* frame over all sessions.
ReasonsAll == { <<"<","e","o","f",">">> }
MessageDataAll == { d \in MessageData : d.parses /\ d.response.fpt = 10
                                        /\ d.response.fw = <<JsHi>>
                                        /\ d.response.nfw = <<JsYo>> }
MaxAudioAll == 1
MaxMessagesAll == 1

NextAll ==
  \/ \E s \in Sessions : start(s)
  \/ \E s \in Sessions : stop(s)
  \/ \E s \in Sessions : cancel(s)
  \/ \E s \in Sessions : onGetUserMediaSuccess(s)
  \/ \E s \in Sessions : onGetUserMediaError(s)
  \/ \E s \in Sessions : onMediaRecorderStop(s)
  \/ \E s \in Sessions : AudioSent < MaxAudioAll /\ onMediaRecorderData(s)
  \/ \E s \in Sessions : onWebSocketOpen(s)
  \/ \E s \in Sessions :
       \E code \in CloseCodes(s), reason \in CloseReasons(s, ReasonsAll) :
         onWebSocketClose(s, code, reason)
  \/ \E s \in Sessions : onWebSocketError(s)
  \/ \E s \in Sessions : \E data \in Messages(s, MessageDataAll) :
       merged < MaxMessagesAll /\ onWebSocketMessage(s, data)
  \/ \E s \in Sessions : completeFinishingEarly(s)

SpecAll == Init /\ [][NextAll]_vars

\* One session in use, with callbacks and the fewer inputs of SpecAll.  The
\* microtask queue runs a queued reaction of a settled promise once the
\* running task returns: a queued completion is not postponed for ever.
NextFair ==
  \/ \E s \in InUse, cb \in BOOLEAN : setOnFinished(s, cb)
  \/ \E s \in InUse, cb \in BOOLEAN : setOnError(s, cb)
  \/ \E s \in InUse : start(s)
  \/ \E s \in InUse : stop(s)
  \/ \E s \in InUse : cancel(s)
  \/ \E s \in InUse : onGetUserMediaSuccess(s)
  \/ \E s \in InUse : onGetUserMediaError(s)
  \/ \E s \in InUse : onMediaRecorderStop(s)
  \/ \E s \in InUse : AudioSent < MaxAudioAll /\ onMediaRecorderData(s)
  \/ \E s \in InUse : onWebSocketOpen(s)
  \/ \E s \in InUse :
       \E code \in CloseCodes(s), reason \in CloseReasons(s, ReasonsAll) :
         onWebSocketClose(s, code, reason)
  \/ \E s \in InUse : onWebSocketError(s)
  \/ \E s \in InUse : \E data \in Messages(s, MessageDataAll) :
       merged < MaxMessagesAll /\ onWebSocketMessage(s, data)
  \/ \E s \in InUse : completeFinishingEarly(s)

SpecFair ==
  Init /\ [][NextFair]_vars /\ \A s \in InUse : WF_vars(completeFinishingEarly(s))

\* The caller configures one session with every setter, at any time, and
\* starts and cancels every session; the channel of the session in use opens
\* or fails and carries nothing.
ApiKeys == {"demo", "key"}
SpeechContexts == {"{}", "{entries}"}
WebSocketUris == {"wss://api.soniox.com/transcribe-websocket", "wss://other"}

NextConfig ==
  \/ \E s \in InUse, v \in BOOLEAN : setIncludeNonFinal(s, v)
  \/ \E s \in InUse, v \in ApiKeys : setApiKey(s, v)
  \/ \E s \in InUse, v \in SpeechContexts : setSpeechContext(s, v)
  \/ \E s \in InUse, cb \in BOOLEAN : setOnStarted(s, cb)
  \/ \E s \in InUse, cb \in BOOLEAN : setOnPartialResult(s, cb)
  \/ \E s \in InUse, cb \in BOOLEAN : setOnFinished(s, cb)
  \/ \E s \in InUse, cb \in BOOLEAN : setOnError(s, cb)
  \/ \E s \in InUse, v \in WebSocketUris : setWebSocketUri(s, v)
  \/ \E s \in Sessions : start(s)
  \/ \E s \in Sessions : cancel(s)
  \/ \E s \in InUse : stop(s)
  \/ \E s \in InUse : onGetUserMediaSuccess(s)
  \/ \E s \in InUse : onGetUserMediaError(s)
  \/ \E s \in InUse : onMediaRecorderStop(s)
  \/ \E s \in InUse : onWebSocketOpen(s)
  \/ \E s \in InUse : onWebSocketError(s)
  \/ \E s \in InUse : completeFinishingEarly(s)

SpecConfig == Init /\ [][NextConfig]_vars

----------------------------------------------------------------------------
\* The encoder worker (audio_recorder.js, pcm_s16leEncoder).  A sample of a
\* block handed to encode() is a number of 1/65536ths; a buffer is the
\* sequence of its bytes.

Max(a, b) == IF a > b THEN a ELSE b
Min(a, b) == IF a < b THEN a ELSE b

\* Math.max(-32768, Math.min(32767, Math.floor(buffer[i] * 32768))), where
\* buffer[i] is x / 65536 and so buffer[i] * 32768 is x / 2.
sampleOf(x) == Max(-32768, Min(32767, x \div 2))

\* view.setInt16(byteOffset, sample, true): two's complement, low byte first.
int16Bytes(sample) == <<(sample % 65536) % 256, (sample % 65536) \div 256>>

RECURSIVE Concat(_)
Concat(seqs) == IF seqs = <<>> THEN <<>> ELSE Head(seqs) \o Concat(Tail(seqs))

\* The Uint8Array that encode(buffer) pushes.
encode(buffer) == Concat([i \in 1..Len(buffer) |-> int16Bytes(sampleOf(buffer[i]))])

\* Faulty variant: a buffer joins a chunk that is not yet over the limit.
RECURSIVE takeBuffers_Late(_, _, _, _, _)
takeBuffers_Late(bufs, buffersPos, numBuffers, length, max) ==
  IF buffersPos + numBuffers < Len(bufs)
    THEN LET buffer == bufs[buffersPos + numBuffers + 1] IN
         IF numBuffers > 0 /\ length > max
           THEN [numBuffers |-> numBuffers, length |-> length]
           ELSE takeBuffers_Late(bufs, buffersPos, numBuffers + 1,
                                 length + Len(buffer), max)
    ELSE [numBuffers |-> numBuffers, length |-> length]

\* The inner loop of dump(): the buffers from position buffersPos (counted
\* from 0) that make the next chunk, with numBuffers taken so far.
RECURSIVE takeBuffers(_, _, _, _, _)
takeBuffers(bufs, buffersPos, numBuffers, length, max) ==
  IF buffersPos + numBuffers < Len(bufs)
    THEN LET buffer == bufs[buffersPos + numBuffers + 1] IN
         IF numBuffers > 0 /\ length + Len(buffer) > max
           THEN [numBuffers |-> numBuffers, length |-> length]
           ELSE takeBuffers(bufs, buffersPos, numBuffers + 1,
                            length + Len(buffer), max)
    ELSE [numBuffers |-> numBuffers, length |-> length]

\* Faulty variant: the position moves one buffer too far after a chunk.
RECURSIVE dumpFrom_SkipsOne(_, _, _)
dumpFrom_SkipsOne(bufs, buffersPos, max) ==
  IF buffersPos < Len(bufs)
    THEN LET taken == takeBuffers(bufs, buffersPos, 0, 0, max)
             array == Concat(SubSeq(bufs, buffersPos + 1,
                                    buffersPos + taken.numBuffers))
         IN <<array>> \o dumpFrom_SkipsOne(bufs, buffersPos + taken.numBuffers + 1, max)
    ELSE <<>>

\* The outer loop of dump(): the chunks made of the buffers from buffersPos.
RECURSIVE dumpFrom(_, _, _)
dumpFrom(bufs, buffersPos, max) ==
  IF buffersPos < Len(bufs)
    THEN LET taken == takeBuffers(bufs, buffersPos, 0, 0, max)
             array == Concat(SubSeq(bufs, buffersPos + 1,
                                    buffersPos + taken.numBuffers))
         IN <<array>> \o dumpFrom(bufs, buffersPos + taken.numBuffers, max)
    ELSE <<>>

\* What dump(maxSize) returns when the worker holds bufs.
dump(bufs, maxSize) == dumpFrom(bufs, 0, maxSize)

\* Faulty variant: dump() does not empty the buffers.
onmessage_DumpKeeps(cmd, inbox) ==
  /\ encLast' = cmd[1]
  /\ IF cmd[1] = "encode"
       THEN /\ buffers' = Append(buffers, encode(cmd[2]))
            /\ toMain' = inbox
            /\ UNCHANGED lastDump
       ELSE IF cmd[1] = "dump"
         THEN LET outputBuffers == dump(buffers, cmd[2]) IN
              /\ lastDump' = [from |-> buffers, max |-> cmd[2],
                              out |-> outputBuffers, after |-> encLast]
              /\ UNCHANGED buffers
              /\ toMain' = inbox \o outputBuffers
         ELSE /\ buffers' = <<>>
              /\ toMain' = inbox
              /\ UNCHANGED lastDump

\* The worker handles the message cmd; the chunks it posts join inbox, the
\* messages not yet delivered to the main thread.
onmessage(cmd, inbox) ==
  /\ encLast' = cmd[1]
  /\ IF cmd[1] = "encode"
       THEN /\ buffers' = Append(buffers, encode(cmd[2]))
            /\ toMain' = inbox
            /\ UNCHANGED lastDump
       ELSE IF cmd[1] = "dump"
         THEN LET outputBuffers == dump(buffers, cmd[2]) IN
              /\ lastDump' = [from |-> buffers, max |-> cmd[2],
                              out |-> outputBuffers, after |-> encLast]
              /\ buffers' = <<>>
              /\ toMain' = inbox \o outputBuffers
         ELSE /\ buffers' = <<>>
              /\ toMain' = inbox
              /\ UNCHANGED lastDump

\* Blocks of samples handed to encode(): none, two and three samples.
Blocks == { <<>>, <<-1, 65536>>, <<3, 1, -70000>> }

\* Values of maxOutputSize, in bytes.
MaxSizes == {0, 4, 10}

\* The worker alone: a client posts it any command and has taken the chunks
\* of the command before.
workerEncode(block) ==
  /\ Len(buffers) < MaxBuffers
  /\ onmessage(<<"encode", block>>, <<>>)
  /\ UNCHANGED <<recState, maxOutputSize, toWorker, log>>
  /\ UNCHANGED <<sessionVars, cbVars, lastEvent>>

workerDump(max) ==
  /\ onmessage(<<"dump", max>>, <<>>)
  /\ UNCHANGED <<recState, maxOutputSize, toWorker, log>>
  /\ UNCHANGED <<sessionVars, cbVars, lastEvent>>

workerReset ==
  /\ onmessage(<<"reset">>, <<>>)
  /\ UNCHANGED <<recState, maxOutputSize, toWorker, log>>
  /\ UNCHANGED <<sessionVars, cbVars, lastEvent>>

NextEnc ==
  \/ \E block \in Blocks : workerEncode(block)
  \/ \E max \in MaxSizes : workerDump(max)
  \/ workerReset

SpecEnc == Init /\ [][NextEnc]_vars

----------------------------------------------------------------------------
\* The MediaRecorder of audio_recorder.js with its worker.  log holds the calls
\* of start(), stop() and requestData() the recorder accepted, written with
\* "()", and the events dispatched to its listeners; an error event is
\* written with the method its data names.

\* The messages of toWorker that are encode commands.
IsEncode(cmd) == cmd[1] = "encode"
Pending == Len(SelectSeq(toWorker, IsEncode))

\* The error events dispatched so far.
Errors ==
  CountIn(log, "error(start)") + CountIn(log, "error(stop)")
    + CountIn(log, "error(requestData)")

\* start(timeslice, maxOutputSize) with a timeslice.
recStart(maxSize) ==
  /\ IF recState # "inactive" THEN Errors < MaxErrors
                              ELSE CountIn(log, "start()") < MaxStarts
  /\ IF recState # "inactive"
       THEN /\ log' = Append(log, "error(start)")
            /\ UNCHANGED <<recState, maxOutputSize>>
       ELSE /\ recState' = "recording"
            /\ maxOutputSize' = <<maxSize>>
            /\ log' = log \o <<"start()", "start">>
  /\ UNCHANGED <<buffers, lastDump, encLast, toWorker, toMain>>
  /\ UNCHANGED <<sessionVars, cbVars, lastEvent>>

\* processor.onaudioprocess
onaudioprocess(block) ==
  /\ recState = "recording"
  /\ Len(buffers) + Pending < MaxBuffers
  /\ toWorker' = Append(toWorker, <<"encode", block>>)
  /\ UNCHANGED <<buffers, lastDump, encLast, recState, maxOutputSize, toMain, log>>
  /\ UNCHANGED <<sessionVars, cbVars, lastEvent>>

\* requestData(), called by the timer of start() while recording or by a
\* caller at any time.
requestData ==
  /\ IF recState = "inactive" THEN Errors < MaxErrors
                             ELSE CountIn(log, "requestData()") < MaxRequests
  /\ IF recState = "inactive"
       THEN /\ log' = Append(log, "error(requestData)")
            /\ UNCHANGED toWorker
       ELSE /\ toWorker' = Append(toWorker, <<"dump", maxOutputSize[1]>>)
            /\ log' = Append(log, "requestData()")
  /\ UNCHANGED <<buffers, lastDump, encLast, recState, maxOutputSize, toMain>>
  /\ UNCHANGED <<sessionVars, cbVars, lastEvent>>

recStop ==
  /\ recState = "inactive" => Errors < MaxErrors
  /\ IF recState = "inactive"
       THEN /\ log' = Append(log, "error(stop)")
            /\ UNCHANGED <<toWorker, recState>>
       ELSE /\ toWorker' = toWorker \o <<<<"dump", maxOutputSize[1]>>, <<"reset">>>>
            /\ recState' = "inactive"
            /\ log' = Append(log, "stop()")
  /\ UNCHANGED <<buffers, lastDump, encLast, maxOutputSize, toMain>>
  /\ UNCHANGED <<sessionVars, cbVars, lastEvent>>

\* The worker takes the next message posted to it.
workerStep ==
  /\ toWorker # <<>>
  /\ onmessage(Head(toWorker), toMain)
  /\ toWorker' = Tail(toWorker)
  /\ UNCHANGED <<recState, maxOutputSize, log>>
  /\ UNCHANGED <<sessionVars, cbVars, lastEvent>>

\* The listener of the worker's messages, set by the constructor.
encoderMessage ==
  /\ toMain # <<>>
  /\ toMain' = Tail(toMain)
  /\ log' = log \o <<"dataavailable">>
                \o (IF recState = "inactive" THEN <<"stop">> ELSE <<>>)
  /\ UNCHANGED <<buffers, lastDump, encLast, recState, maxOutputSize, toWorker>>
  /\ UNCHANGED <<sessionVars, cbVars, lastEvent>>

\* The recorder is run with blocks of two samples and two limits.
BlocksRec == { <<-1, 65536>> }
MaxSizesRec == {4, 10}

NextRec ==
  \/ \E maxSize \in MaxSizesRec : recStart(maxSize)
  \/ \E block \in BlocksRec : onaudioprocess(block)
  \/ requestData
  \/ recStop
  \/ workerStep
  \/ encoderMessage

SpecRec == Init /\ [][NextRec]_vars

----------------------------------------------------------------------------
\* Properties

ActiveStates == {"RequestingMedia", "OpeningWebSocket", "Running", "Finishing",
                 "FinishingEarly"}
TerminalStates == {"Finished", "Error", "Canceled"}

\* The last method or handler that ran is op, of session s.
Last(op, s) == lastEvent.op = op /\ lastEvent.s = s

\* C1: once a session is Finished, Error or Canceled, no step (no method call,
\* no capture or channel event, no deferred completion) changes its state or
\* its accumulated result.
C1_TerminalIsFrozen ==
  [][\A s \in Sessions :
       state[s] \in TerminalStates =>
         state'[s] = state[s] /\ result'[s] = result[s]]_vars

\* A channel message reaches a session that ended in Error with words merged.
C1_Witness ==
  \E s \in Sessions :
    /\ state[s] = "Error"
    /\ result[s].words # <<>>
    /\ Last("onWebSocketMessage", s)

\* C2: with the callbacks registered, onFinished has been invoked once exactly
\* when the session is Finished and onError once exactly when it is Error;
\* the two together are never invoked more than once, and a session that is
\* Canceled (or in any other state) has invoked neither.
C2_OneTerminalCallback ==
  \A s \in Sessions :
    /\ finishedCalls[s] + errorCalls[s] <= 1
    /\ finishedCalls[s] = (IF state[s] = "Finished" /\ onFinished[s] THEN 1 ELSE 0)
    /\ errorCalls[s] = (IF state[s] = "Error" /\ onError[s] THEN 1 ELSE 0)

\* A channel error was reported, and the channel close that follows it arrived.
C2_Witness ==
  \E s \in Sessions :
    /\ state[s] = "Error"
    /\ errorCalls[s] = 1
    /\ lastError[s].status = <<"websocket_error">>
    /\ Last("onWebSocketClose", s)

\* C3: at most one session is in an active state, the process-wide flag is
\* true exactly when one is; the flag is set only by a start() that succeeds,
\* it is cleared by every step that takes a session into Finished, Error or
\* Canceled, and only the active session clears it.
C3_OneActiveSession ==
  /\ [](/\ Cardinality({s \in Sessions : state[s] \in ActiveStates}) <= 1
        /\ active <=> \E s \in Sessions : state[s] \in ActiveStates)
  /\ [][/\ (~active /\ active') =>
             /\ lastEvent'.op = "start"
             /\ ~lastEvent'.threw
             /\ state[lastEvent'.s] = "Init"
             /\ state'[lastEvent'.s] = "RequestingMedia"
        /\ (active /\ ~active') =>
             /\ state[lastEvent'.s] \in ActiveStates
             /\ state'[lastEvent'.s] \in TerminalStates
        /\ \A s \in Sessions :
             (state[s] \notin TerminalStates /\ state'[s] \in TerminalStates)
               => ~active']_vars

\* One session has ended, another is running, and a third call came from the
\* ended one.
C3_Witness ==
  \E s, r \in Sessions :
    /\ state[s] = "Running"
    /\ state[r] \in TerminalStates
    /\ active
    /\ Last("cancel", r)

\* Session s holds no capture resource: its fields are null, the tracks of
\* its stream are stopped and its recorder's worker is terminated.
CaptureReleased(s) ==
  /\ ~mediaStream[s]
  /\ ~mediaRecorder[s]
  /\ stream[s] # "live"
  /\ recorder[s] \notin {"inactive", "recording"}

\* Session s holds no channel: its field is null and the socket is closed.
ChannelReleased(s) ==
  /\ ~webSocket[s]
  /\ socket[s] # "live"

\* C4: cancel() in an active state leaves the session Canceled when it
\* returns, with the capture and channel resources released and the
\* process-wide flag cleared; cancel() on an inactive session changes nothing;
\* no cancel() invokes a callback.
C4_CancelIsImmediate ==
  [][\A s \in Sessions :
       (lastEvent'.op = "cancel" /\ lastEvent'.s = s) =>
         /\ ~lastEvent'.threw
         /\ UNCHANGED cbVars
         /\ IF state[s] \in ActiveStates
              THEN /\ state'[s] = "Canceled"
                   /\ CaptureReleased(s)'
                   /\ ChannelReleased(s)'
                   /\ ~active'
              ELSE UNCHANGED sessionVars]_vars

\* cancel() ran while the session was recording into an open channel.
C4_Witness ==
  \E s \in Sessions :
    /\ Last("cancel", s)
    /\ state[s] = "Canceled"
    /\ socket[s] = "closed"
    /\ recorder[s] = "terminated"
    /\ sent[s] # <<>>

\* C5: stop() in RequestingMedia or OpeningWebSocket leaves the session in
\* FinishingEarly with its resources released and the completion queued; no
\* stop() invokes onFinished, and from FinishingEarly only the deferred
\* completion does.
C5_StopDefersFinished ==
  [][\A s \in Sessions :
       /\ (lastEvent'.op = "stop" /\ lastEvent'.s = s) =>
            /\ finishedCalls'[s] = finishedCalls[s]
            /\ state[s] \in {"RequestingMedia", "OpeningWebSocket"} =>
                 /\ state'[s] = "FinishingEarly"
                 /\ CaptureReleased(s)'
                 /\ ChannelReleased(s)'
                 /\ deferred'[s]
       /\ (state[s] = "FinishingEarly" /\ finishedCalls'[s] # finishedCalls[s]) =>
            /\ lastEvent'.op = "completeFinishingEarly"
            /\ lastEvent'.s = s]_vars

\* stop() ran while the channel was opening, with onFinished registered.
C5_Witness ==
  \E s \in Sessions :
    /\ Last("stop", s)
    /\ state[s] = "FinishingEarly"
    /\ socket[s] = "closed"
    /\ onFinished[s]
    /\ finishedCalls[s] = 0

\* C6 as claimed: stop() on an inactive session raises an error notification
\* (it invokes the registered onError callback or throws).
C6_StopInactiveRaises ==
  [][\A s \in Sessions :
       (lastEvent'.op = "stop" /\ lastEvent'.s = s
          /\ state[s] \in {"Init"} \cup TerminalStates /\ onError[s]) =>
         (errorCalls'[s] > errorCalls[s] \/ lastEvent'.threw)]_vars

\* C6 as amended: stop() in Init, Finished, Error, Canceled, Finishing or
\* FinishingEarly is a silent no-op: it changes nothing, invokes no callback
\* and throws nothing.
C6_StopElsewhereIsSilent ==
  [][\A s \in Sessions :
       (lastEvent'.op = "stop" /\ lastEvent'.s = s
          /\ state[s] \in {"Init", "Finishing", "FinishingEarly"} \cup TerminalStates) =>
         /\ ~lastEvent'.threw
         /\ UNCHANGED <<sessionVars, cbVars>>]_vars

\* stop() ran on a session that waits for the server's close.
C6_Witness ==
  \E s \in Sessions :
    /\ Last("stop", s)
    /\ state[s] = "Finishing"
    /\ onError[s]

\* The reason is "<eof>", alone or followed by a message on one line.
IsEofReason(r) ==
  /\ Len(r) >= 5
  /\ SubSeq(r, 1, 5) = <<"<", "e", "o", "f", ">">>
  /\ \A i \in 6..Len(r) : r[i] \notin {"\n", "\r"}

\* The step is onWebSocketClose of session s, which read the event's code and
\* reason.
CloseStep(s) ==
  /\ lastEvent'.op = "onWebSocketClose"
  /\ lastEvent'.s = s
  /\ Len(lastEvent'.arg) = 2

\* C7 as claimed: in Finishing, a close with code 1000 and reason "eof" takes
\* the session to Finished, onFinished fires once and onError does not.
C7_PlainEofFinishes ==
  [][\A s \in Sessions :
       (state[s] = "Finishing" /\ CloseStep(s)
          /\ lastEvent'.arg = <<1000, <<"e", "o", "f">>>>) =>
         /\ state'[s] = "Finished"
         /\ finishedCalls'[s] = (IF onFinished[s] THEN 1 ELSE 0)
         /\ errorCalls'[s] = 0]_vars

\* C7 as amended: in Finishing (the end-of-audio frame was the last frame
\* sent), a close with code 1000 and reason "<eof>", alone or followed by a
\* message, takes the session to Finished; a registered onFinished has then
\* fired exactly once and onError has not fired.
C7_BracketedEofFinishes ==
  [][\A s \in Sessions :
       (state[s] = "Finishing" /\ CloseStep(s)
          /\ lastEvent'.arg[1] = 1000 /\ IsEofReason(lastEvent'.arg[2])) =>
         /\ sent[s][Len(sent[s])] = ""
         /\ state'[s] = "Finished"
         /\ finishedCalls'[s] = (IF onFinished[s] THEN 1 ELSE 0)
         /\ errorCalls'[s] = 0]_vars

\* Running, stop(), then the server's close "<eof> ok": Finished, reported once.
C7_Witness ==
  \E s \in Sessions :
    /\ Last("onWebSocketClose", s)
    /\ lastEvent.arg = <<1000, <<"<", "e", "o", "f", ">", " ", "o", "k">>>>
    /\ state[s] = "Finished"
    /\ finishedCalls[s] = 1
    /\ sent[s][Len(sent[s])] = ""

\* C8: in Running or OpeningWebSocket, a close with code 1000 whose reason
\* carries the eof token ("<eof>" with or without a message, or the bare
\* "eof") takes the session to Error, never to Finished, and a registered
\* onError is invoked once with status other_asr_error.
C8_EarlyEofIsError ==
  [][\A s \in Sessions :
       (state[s] \in {"Running", "OpeningWebSocket"} /\ CloseStep(s)
          /\ lastEvent'.arg[1] = 1000
          /\ (IsEofReason(lastEvent'.arg[2]) \/ lastEvent'.arg[2] = <<"e", "o", "f">>)) =>
         /\ state'[s] = "Error"
         /\ finishedCalls'[s] = 0
         /\ onError[s] => /\ errorCalls'[s] = 1
                          /\ lastError'[s].status = <<"other_asr_error">>]_vars

\* The server closed with "<eof>" while audio was still being sent.
C8_Witness ==
  \E s \in Sessions :
    /\ Last("onWebSocketClose", s)
    /\ lastEvent.arg = <<1000, <<"<", "e", "o", "f", ">">>>>
    /\ state[s] = "Error"
    /\ lastError[s] = [status |-> <<"other_asr_error">>,
                       message |-> <<"Unexpected EOF received.">>]
    /\ sent[s] = <<"config", "pcm">>

\* The step reports status (and message, when given) through a registered
\* onError and leaves session s in Error.
ReportsError(s, status) ==
  /\ state'[s] = "Error"
  /\ finishedCalls'[s] = finishedCalls[s]
  /\ onError[s] => /\ errorCalls'[s] = errorCalls[s] + 1
                   /\ lastError'[s].status = status

\* C9: in OpeningWebSocket, Running or Finishing, a close with a code other
\* than 1000 reports websocket_closed; a close with code 1000 whose reason
\* does not match the pattern reports other_asr_error with the raw reason;
\* one whose reason matches with a token other than eof reports that token
\* and message; an error event reports websocket_error; each leaves the
\* session in Error.  In any other state close and error events change nothing.
C9_CloseAndErrorReports ==
  [][\A s \in Sessions :
       /\ (state[s] \in {"OpeningWebSocket", "Running", "Finishing"}
             /\ lastEvent'.op = "onWebSocketClose" /\ lastEvent'.s = s) =>
            /\ Len(lastEvent'.arg) = 2
            /\ LET code == lastEvent'.arg[1]
                   reason == lastEvent'.arg[2]
                   match == StatusMessageExec(reason)
               IN /\ code # 1000 => ReportsError(s, <<"websocket_closed">>)
                  /\ (code = 1000 /\ ~match.matched) =>
                       /\ ReportsError(s, <<"other_asr_error">>)
                       /\ onError[s] => lastError'[s].message = reason
                  /\ (code = 1000 /\ match.matched
                        /\ match.status # <<"e", "o", "f">>) =>
                       /\ ReportsError(s, match.status)
                       /\ onError[s] => lastError'[s].message = match.message
       /\ (state[s] \in {"OpeningWebSocket", "Running", "Finishing"}
             /\ lastEvent'.op = "onWebSocketError" /\ lastEvent'.s = s) =>
            ReportsError(s, <<"websocket_error">>)
       /\ (state[s] \notin {"OpeningWebSocket", "Running", "Finishing"}
             /\ lastEvent'.op \in {"onWebSocketClose", "onWebSocketError"}
             /\ lastEvent'.s = s) =>
            UNCHANGED <<sessionVars, cbVars>>]_vars

\* The channel closed normally with "<e-1>  no k" while it was opening.
C9_Witness ==
  \E s \in Sessions :
    /\ Last("onWebSocketClose", s)
    /\ lastEvent.arg[1] = 1000
    /\ state[s] = "Error"
    /\ sent[s] = <<>>
    /\ lastError[s] = [status |-> <<"e", "-", "1">>,
                       message |-> <<"n", "o", " ", "k">>]

\* The frames are a configuration frame, then audio frames, then at most one
\* empty frame.
RECURSIVE AllAudio(_)
AllAudio(frames) ==
  frames = <<>> \/ (Head(frames) = "pcm" /\ AllAudio(Tail(frames)))

FramesInOrder(frames) ==
  \/ frames = <<>>
  \/ /\ Head(frames) = "config"
     /\ \/ AllAudio(Tail(frames))
        \/ /\ Len(frames) >= 2
           /\ frames[Len(frames)] = ""
           /\ AllAudio(SubSeq(frames, 2, Len(frames) - 1))

\* C10: the frames a session has sent are one configuration frame, then audio
\* frames, then at most one empty end-of-audio frame.  A step sends at most
\* one frame: the configuration frame exactly on OpeningWebSocket -> Running,
\* an audio frame only while staying in Running, the empty frame exactly on
\* Running -> Finishing; no other step sends anything.
C10_FrameOrder ==
  /\ [](\A s \in Sessions :
          /\ FramesInOrder(sent[s])
          /\ state[s] \in {"Init", "RequestingMedia", "OpeningWebSocket",
                           "FinishingEarly"} => sent[s] = <<>>
          /\ state[s] = "Running" =>
               (sent[s] # <<>> /\ sent[s][Len(sent[s])] # "")
          /\ state[s] = "Finishing" => sent[s][Len(sent[s])] = "")
  /\ [][\A s \in Sessions :
          /\ sent'[s] # sent[s] =>
               \E f \in {"config", "pcm", ""} :
                 /\ sent'[s] = Append(sent[s], f)
                 /\ f = "config" =>
                      (state[s] = "OpeningWebSocket" /\ state'[s] = "Running")
                 /\ f = "pcm" => (state[s] = "Running" /\ state'[s] = "Running")
                 /\ f = "" => (state[s] = "Running" /\ state'[s] = "Finishing")
          /\ (state[s] # "Running" /\ state'[s] = "Running") =>
               sent'[s] = Append(sent[s], "config")
          /\ (state[s] # "Finishing" /\ state'[s] = "Finishing") =>
               sent'[s] = Append(sent[s], "")]_vars

\* An audio chunk was sent, the audio was ended, and a late chunk arrived.
C10_Witness ==
  \E s \in Sessions :
    /\ sent[s] = <<"config", "pcm", "">>
    /\ state[s] = "Finishing"
    /\ Last("onMediaRecorderData", s)

----------------------------------------------------------------------------
\* Result merging

IsFinal(w) == w.is_final
IsNonFinal(w) == ~w.is_final
Finals(words) == SelectSeq(words, IsFinal)
NonFinals(words) == SelectSeq(words, IsNonFinal)

\* The words a response frame carries, as the result holds them.
WordOf(jsWord, final) ==
  [text |-> jsWord.t, start_ms |-> jsWord.s, duration_ms |-> jsWord.d,
   is_final |-> final]
FinalsOf(response) == [i \in 1..Len(response.fw) |-> WordOf(response.fw[i], TRUE)]
NonFinalsOf(response) ==
  [i \in 1..Len(response.nfw) |-> WordOf(response.nfw[i], FALSE)]

\* The step merges a response frame into the result of session s.
Merges(s) ==
  /\ lastEvent'.op = "onWebSocketMessage"
  /\ lastEvent'.s = s
  /\ lastEvent'.arg # NoArg
  /\ merged' = merged + 1

\* C11: merging a response frame R into a result appends R's final words to
\* the final words already held, leaves R's non-final words as the only
\* non-final words, and sets both processing-time fields to R's; so merging
\* R1 and then R2 into a fresh result gives the final words F(R1) ++ F(R2),
\* the non-final words NF(R2) and the times of R2.  A frame that arrives in
\* a state other than Running and Finishing is not merged, and nothing but a
\* frame changes a result.
C11_MergeKeepsFinals ==
  [][\A s \in Sessions :
       /\ Merges(s) =>
            LET r == lastEvent'.arg[1] IN
            /\ state[s] \in {"Running", "Finishing"}
            /\ Finals(result'[s].words) = Finals(result[s].words) \o FinalsOf(r)
            /\ NonFinals(result'[s].words) = NonFinalsOf(r)
            /\ result'[s].final_proc_time_ms = r.fpt
            /\ result'[s].total_proc_time_ms = r.tpt
            /\ result[s] = initialResult =>
                 result'[s].words = FinalsOf(r) \o NonFinalsOf(r)
       /\ (lastEvent'.op = "onWebSocketMessage" /\ lastEvent'.s = s
              /\ state[s] \notin {"Running", "Finishing"}) =>
            (result' = result /\ merged' = merged)
       /\ result'[s] # result[s] => Merges(s)]_vars

\* A second frame was merged: the non-final word of the first is gone, the
\* final words of both are held in order.
C11_Witness ==
  \E s \in Sessions :
    /\ merged = 2
    /\ Last("onWebSocketMessage", s)
    /\ lastEvent.arg = <<[fw |-> <<JsHi>>, nfw |-> <<JsYo>>, fpt |-> 20, tpt |-> 30]>>
    /\ result[s] = [words |-> <<WordOf(JsHi, TRUE), WordOf(JsHi, TRUE),
                                WordOf(JsYo, FALSE)>>,
                    final_proc_time_ms |-> 20, total_proc_time_ms |-> 30]

\* The index of the last final word of words, 0 when there is none.
LastFinal(words) ==
  IF \E i \in 1..Len(words) : words[i].is_final
    THEN CHOOSE i \in 1..Len(words) :
           words[i].is_final /\ \A j \in (i + 1)..Len(words) : ~words[j].is_final
    ELSE 0

\* C16: the words of a result are final words followed by at most one run of
\* non-final words (no non-final word precedes a final one), and a merge
\* removes the whole trailing run of non-final words before it appends the
\* words of the frame.
C16_FinalPrefix ==
  /\ [](\A s \in Sessions :
          \A i, j \in 1..Len(result[s].words) :
            (i < j /\ ~result[s].words[i].is_final) => ~result[s].words[j].is_final)
  /\ [][\A s \in Sessions :
          Merges(s) =>
            LET r == lastEvent'.arg[1]
                words == result[s].words IN
            result'[s].words =
              SubSeq(words, 1, LastFinal(words)) \o FinalsOf(r) \o NonFinalsOf(r)]_vars

\* Two frames were merged and the result holds final words of both, then a
\* run of two non-final words.
C16_Witness ==
  \E s \in Sessions :
    /\ merged = 2
    /\ Len(Finals(result[s].words)) = 2
    /\ Len(NonFinals(result[s].words)) = 2
    /\ result[s].words = Finals(result[s].words) \o NonFinals(result[s].words)

----------------------------------------------------------------------------
\* Life cycle

\* The transitions of the state machine: source, trigger, destination.
TransitionTable ==
  { <<"Init", "start", "RequestingMedia">>,
    <<"RequestingMedia", "onGetUserMediaSuccess", "OpeningWebSocket">>,
    <<"RequestingMedia", "onGetUserMediaError", "Error">>,
    <<"RequestingMedia", "stop", "FinishingEarly">>,
    <<"RequestingMedia", "cancel", "Canceled">>,
    <<"OpeningWebSocket", "onWebSocketOpen", "Running">>,
    <<"OpeningWebSocket", "onWebSocketClose", "Error">>,
    <<"OpeningWebSocket", "onWebSocketError", "Error">>,
    <<"OpeningWebSocket", "stop", "FinishingEarly">>,
    <<"OpeningWebSocket", "cancel", "Canceled">>,
    <<"Running", "onMediaRecorderStop", "Finishing">>,
    <<"Running", "stop", "Finishing">>,
    <<"Running", "onWebSocketClose", "Error">>,
    <<"Running", "onWebSocketError", "Error">>,
    <<"Running", "cancel", "Canceled">>,
    <<"Finishing", "onWebSocketClose", "Finished">>,
    <<"Finishing", "onWebSocketClose", "Error">>,
    <<"Finishing", "onWebSocketError", "Error">>,
    <<"Finishing", "cancel", "Canceled">>,
    <<"FinishingEarly", "completeFinishingEarly", "Finished">>,
    <<"FinishingEarly", "cancel", "Canceled">> }

\* How far a session is along its life.
Rank(st) ==
  CASE st = "Init" -> 0
    [] st = "RequestingMedia" -> 1
    [] st = "OpeningWebSocket" -> 2
    [] st = "Running" -> 3
    [] st \in {"Finishing", "FinishingEarly"} -> 4
    [] st \in TerminalStates -> 5

\* C13: every change of a session's state is a transition of the table, made
\* by the table's trigger on that session, and moves the session forward in
\* the order Init, RequestingMedia, OpeningWebSocket, Running, Finishing or
\* FinishingEarly, terminal: so each of RequestingMedia, OpeningWebSocket and
\* Running is entered at most once and in that order, and a session that has
\* reached a terminal state is never in another state again.
C13_TableTransitionsOnly ==
  [][\A s \in Sessions :
       state'[s] # state[s] =>
         /\ lastEvent'.s = s
         /\ <<state[s], lastEvent'.op, state'[s]>> \in TransitionTable
         /\ Rank(state'[s]) > Rank(state[s])]_vars

\* A session went through RequestingMedia, OpeningWebSocket, Running and
\* Finishing and is Finished.
C13_Witness ==
  \E s \in Sessions :
    /\ state[s] = "Finished"
    /\ sent[s] = <<ConfigFrame, AudioFrame, EndOfAudio>>
    /\ gum[s] = "settled"
    /\ Last("onWebSocketClose", s)

\* Everything of the sessions but the listed variables.
OnlyGumChanges ==
  UNCHANGED <<state, active, cfgVars, mediaVars, wsVars, result, deferred, sent,
              merged, cbVars>>
OnlyGumAndStreamChange(s) ==
  /\ UNCHANGED <<state, active, cfgVars, mediaStream, mediaRecorder, recorder,
                 wsVars, result, deferred, sent, merged, cbVars>>
  /\ \A o \in Sessions \ {s} : stream'[o] = stream[o]

\* C14: when the capture request is granted after stop() or cancel() left
\* RequestingMedia, the granted stream is stopped and nothing else happens:
\* the session keeps no stream, no recorder and no channel is made, and no
\* callback runs.  When it is denied then, no error callback runs and nothing
\* changes.  When the channel opens in a state other than OpeningWebSocket,
\* no capture is started and no configuration frame is sent.
C14_StaleEventsAreDiscarded ==
  [][\A s \in Sessions :
       /\ (lastEvent'.op = "onGetUserMediaSuccess" /\ lastEvent'.s = s
              /\ state[s] # "RequestingMedia") =>
            /\ stream'[s] = "stopped"
            /\ OnlyGumAndStreamChange(s)
       /\ (lastEvent'.op = "onGetUserMediaError" /\ lastEvent'.s = s
              /\ state[s] # "RequestingMedia") =>
            OnlyGumChanges
       /\ (lastEvent'.op = "onWebSocketOpen" /\ lastEvent'.s = s
              /\ state[s] # "OpeningWebSocket") =>
            /\ recorder'[s] = recorder[s]
            /\ sent'[s] = sent[s]
            /\ UNCHANGED <<sessionVars, cbVars>>]_vars

\* The capture request was granted after cancel(): the stream was stopped and
\* the session holds nothing.
C14_Witness ==
  \E s \in Sessions :
    /\ Last("onGetUserMediaSuccess", s)
    /\ state[s] = "Canceled"
    /\ stream[s] = "stopped"
    /\ ~mediaStream[s] /\ recorder[s] = "none" /\ socket[s] = "none"

\* C15: a session that is Finished, Error, Canceled or FinishingEarly holds
\* no media stream, no recorder and no channel; a session that is Finishing
\* holds no stream and no recorder but holds its open channel.  Releasing is
\* idempotent: a step of a session that holds nothing (cancel(), stop(), a
\* deferred completion or an event that releases again) leaves its stream,
\* recorder and channel as they are, but for the stopping of a stream that is
\* granted late.
C15_NoLeak ==
  /\ [](\A s \in Sessions :
          /\ state[s] \in TerminalStates \cup {"FinishingEarly"} =>
               (CaptureReleased(s) /\ ChannelReleased(s))
          /\ state[s] = "Finishing" =>
               (CaptureReleased(s) /\ webSocket[s] /\ socket[s] = "live"))
  /\ [][\A s \in Sessions :
          (~mediaStream[s] /\ ~mediaRecorder[s] /\ ~webSocket[s]
             /\ lastEvent'.op # "onGetUserMediaSuccess") =>
            /\ ~mediaStream'[s] /\ ~mediaRecorder'[s] /\ ~webSocket'[s]
            /\ stream'[s] = stream[s]
            /\ recorder'[s] = recorder[s]
            /\ socket'[s] = socket[s]]_vars

\* The deferred completion released again what stop() had released in
\* OpeningWebSocket.
C15_Witness ==
  \E s \in Sessions :
    /\ state[s] = "Finished"
    /\ Last("completeFinishingEarly", s)
    /\ stream[s] = "stopped"
    /\ recorder[s] = "terminated"
    /\ socket[s] = "closed"

----------------------------------------------------------------------------
\* Early finish

\* C17: with the queued completion eventually run, a session in
\* FinishingEarly becomes Finished or, when cancel() comes first, Canceled.
\* It leaves FinishingEarly only by the queued completion, to Finished with
\* onFinished invoked once when registered, or by cancel(), to Canceled; a
\* queued completion that runs in another state changes nothing.
C17_EarlyFinishCompletes ==
  /\ \A s \in Sessions :
       (state[s] = "FinishingEarly") ~> (state[s] \in {"Finished", "Canceled"})
  /\ [][\A s \in Sessions :
          /\ (state[s] = "FinishingEarly" /\ state'[s] # "FinishingEarly") =>
               \/ /\ lastEvent'.op = "completeFinishingEarly" /\ lastEvent'.s = s
                  /\ state'[s] = "Finished"
                  /\ finishedCalls'[s] = finishedCalls[s] + (IF onFinished[s] THEN 1 ELSE 0)
               \/ /\ lastEvent'.op = "cancel" /\ lastEvent'.s = s
                  /\ state'[s] = "Canceled"
                  /\ finishedCalls'[s] = finishedCalls[s]
          /\ (lastEvent'.op = "completeFinishingEarly" /\ lastEvent'.s = s
                 /\ state[s] # "FinishingEarly") =>
               UNCHANGED <<state, active, cfgVars, mediaVars, wsVars, result, gum,
                           sent, merged, cbVars>>]_vars

\* cancel() came between stop() and the queued completion, which then ran.
C17_Witness ==
  \E s \in Sessions :
    /\ state[s] = "Canceled"
    /\ Last("completeFinishingEarly", s)
    /\ ~deferred[s]
    /\ onFinished[s] /\ finishedCalls[s] = 0

----------------------------------------------------------------------------
\* Configuration

Setters ==
  {"setIncludeNonFinal", "setApiKey", "setSpeechContext", "setOnStarted",
   "setOnPartialResult", "setOnFinished", "setOnError", "setWebSocketUri"}

\* C12: start() on a session that is not in Init, or while another session is
\* active, throws and leaves the state of every session and the process-wide
\* flag as they were; each of the eight setters, called on a session that is
\* not in Init, throws and leaves the configuration as it was.  Neither
\* changes anything else.
C12_StartAndSettersGuarded ==
  [][\A s \in Sessions :
       /\ (lastEvent'.op = "start" /\ lastEvent'.s = s
              /\ (state[s] # "Init" \/ active)) =>
            /\ lastEvent'.threw
            /\ state' = state /\ active' = active
            /\ UNCHANGED <<sessionVars, cbVars>>
       /\ (lastEvent'.op \in Setters /\ lastEvent'.s = s /\ state[s] # "Init") =>
            /\ lastEvent'.threw
            /\ UNCHANGED cfgVars
            /\ UNCHANGED <<sessionVars, cbVars>>]_vars

\* start() threw on a fresh, configured session because another session was
\* active.
C12_Witness ==
  /\ Last("start", "s1")
  /\ lastEvent.threw
  /\ state["s1"] = "Init"
  /\ config["s1"].apiKey = "key"
  /\ state["s2"] = "RequestingMedia"
  /\ active

----------------------------------------------------------------------------
\* Encoder

\* The bytes of the buffers a..b of bufs.
Bytes(bufs, a, b) == Len(Concat(SubSeq(bufs, a, b)))

\* With the chunks starting at the buffers of starts, the last buffer of the
\* chunk that starts at buffer a.
ChunkEnd(bufs, starts, a) ==
  IF \E b \in starts : b > a
    THEN (CHOOSE b \in starts : b > a /\ \A c \in starts : c > a => b <= c) - 1
    ELSE Len(bufs)

\* The members of a set of numbers, ascending.
RECURSIVE Ascending(_)
Ascending(set) ==
  IF set = {} THEN <<>>
  ELSE LET m == CHOOSE x \in set : \A y \in set : x <= y
       IN <<m>> \o Ascending(set \ {m})

\* The chunks starting at the buffers of starts are whole buffers of bufs in
\* order, none left out; a chunk of several buffers is within max bytes, and
\* a chunk ends only where the next buffer would take it over max bytes.
Greedy(bufs, max, starts) ==
  /\ starts \subseteq 1..Len(bufs)
  /\ bufs # <<>> => 1 \in starts
  /\ \A a \in starts :
       LET b == ChunkEnd(bufs, starts, a) IN
       /\ b > a => Bytes(bufs, a, b) <= max
       /\ b < Len(bufs) => Bytes(bufs, a, b) + Len(bufs[b + 1]) > max

ChunksAt(bufs, starts) ==
  LET order == Ascending(starts) IN
  [k \in 1..Len(order) |->
     Concat(SubSeq(bufs, order[k], ChunkEnd(bufs, starts, order[k])))]

\* C19: the chunks dump() returns are the buffers held, split between whole
\* buffers: every chunk is one or more buffers, a chunk of several buffers
\* has at most maxOutputSize bytes, a buffer of more than maxOutputSize bytes
\* is a chunk by itself, and a chunk ends only where the next buffer would
\* take it over maxOutputSize.
C19_GreedyChunks ==
  lastDump.after # "none" =>
    \E starts \in SUBSET (1..Len(lastDump.from)) :
      /\ Greedy(lastDump.from, lastDump.max, starts)
      /\ lastDump.out = ChunksAt(lastDump.from, starts)
      /\ \A i \in 1..Len(lastDump.from) :
           Len(lastDump.from[i]) > lastDump.max =>
             (i \in starts /\ ChunkEnd(lastDump.from, starts, i) = i)

\* Three buffers of 0, 4 and 6 bytes in some order, the 6 last, were dumped
\* with a limit of 4 bytes: a chunk of two buffers and the large buffer alone.
C19_Witness ==
  /\ lastDump.after = "encode"
  /\ Len(lastDump.from) = 3
  /\ Len(lastDump.from[3]) = 6
  /\ lastDump.max = 4
  /\ Len(lastDump.out) = 2
  /\ Len(lastDump.out[1]) = 4
  /\ Len(lastDump.out[2]) = 6

\* C20: the worker holds no buffer after dump() and after a reset, so a
\* dump() that follows a dump() returns no chunk.
C20_DumpDrains ==
  /\ encLast \in {"dump", "reset"} => buffers = <<>>
  /\ lastDump.after = "dump" => (lastDump.from = <<>> /\ lastDump.out = <<>>)

\* dump() ran twice in succession.
C20_Witness ==
  /\ encLast = "dump"
  /\ lastDump.after = "dump"
  /\ lastDump.out = <<>>

----------------------------------------------------------------------------
\* Recorder

\* The index of the last x in seq, 0 when there is none.
LastIndex(seq, x) ==
  IF \E i \in 1..Len(seq) : seq[i] = x
    THEN CHOOSE i \in 1..Len(seq) :
           seq[i] = x /\ \A j \in (i + 1)..Len(seq) : seq[j] # x
    ELSE 0

\* What the listeners received since the last stop() of a recording recorder.
AfterStop == SubSeq(log, LastIndex(log, "stop()") + 1, Len(log))

\* stop() was called on the recording recorder, which was not started again.
Stopped == LastIndex(log, "stop()") > LastIndex(log, "start()")

\* C18: after stop() on a recording recorder the listeners receive exactly
\* one stop event, and no dataavailable event after it: never more than one
\* stop event, never a dataavailable event after a stop event, and one stop
\* event once every message posted before and by stop() has been handled, be
\* the chunks none, one or several.
C18_OneStopAfterData ==
  Stopped =>
    /\ CountIn(AfterStop, "stop") <= 1
    /\ \A i, j \in 1..Len(AfterStop) :
         (i < j /\ AfterStop[i] = "stop") => AfterStop[j] # "dataavailable"
    /\ (toWorker = <<>> /\ toMain = <<>>) => CountIn(AfterStop, "stop") = 1

----------------------------------------------------------------------------
\* Bytes through the encoder

\* The bytes of all the sequences of seqs together.
RECURSIVE TotalBytes(_)
TotalBytes(seqs) ==
  IF seqs = <<>> THEN 0 ELSE Len(Head(seqs)) + TotalBytes(Tail(seqs))

\* C21: dump() loses, duplicates and reorders nothing.  The buffers the
\* worker holds are those of the encode() calls since the last dump() or
\* reset, in the order of the calls (an encode() appends one buffer of two
\* bytes a sample, a dump() takes all the buffers held and leaves none); the
\* chunks a dump() returns, put together in order, are the bytes of those
\* buffers put together in order, and as many bytes.
C21_DumpPreservesBytes ==
  /\ [](lastDump.after # "none" =>
          /\ Concat(lastDump.out) = Concat(lastDump.from)
          /\ TotalBytes(lastDump.out) = TotalBytes(lastDump.from))
  /\ [][/\ encLast' = "encode" =>
            \E block \in Blocks :
              /\ buffers' = Append(buffers, encode(block))
              /\ Len(buffers'[Len(buffers')]) = 2 * Len(block)
              /\ lastDump' = lastDump
        /\ lastDump' # lastDump =>
            (encLast' = "dump" /\ lastDump'.from = buffers /\ buffers' = <<>>)
        /\ (encLast' # "encode" /\ buffers' # buffers) => buffers' = <<>>]_vars

\* Blocks of two and three samples were encoded and dumped with a limit of
\* four bytes: two chunks, the bytes of the first block and those of the
\* second.
C21_Witness ==
  /\ lastDump.after = "encode"
  /\ lastDump.max = 4
  /\ lastDump.from = <<encode(<<-1, 65536>>), encode(<<3, 1, -70000>>)>>
  /\ lastDump.out = << <<255, 255, 255, 127>>, <<1, 0, 0, 0, 0, 128>> >>

====
